---- MODULE Spec2Model ----
(***************************************************************************)
(* Model of django-getpaid-payu: the PayU REST client (client.py), the     *)
(* payment processor (processor.py) and the callback view (views.py).      *)
(*                                                                         *)
(* Amounts.  A Python Decimal is the record [sig, exp] standing for        *)
(* sig / 10^exp.  The payment's DecimalFields are kept in hundredths.      *)
(* The integer-valued strings PayU receives ("1250") are the integers.     *)
(***************************************************************************)
EXTENDS Integers, Sequences, FiniteSets, TLC

VARIABLES db, handler, last, client, now, refund_confirmations, refunds_started,
          deliveries, caller, authorizations, flow, gateway, payload, form

vars == <<db, handler, last, client, now, refund_confirmations, refunds_started,
          deliveries, caller, authorizations, flow, gateway, payload, form>>

\* The threads sharing the client, an interrupted prepare_transaction, and the
\* arguments of the conversions: what the operations on a payment leave alone.
others == <<caller, authorizations, flow, gateway, payload, form>>

(***************************************************************************)
(* Bounds of the model.                                                    *)
(***************************************************************************)
MaxRefunds == 1
MaxDeliveries == 4
MaxTime == 17

(***************************************************************************)
(* Decimal arithmetic.                                                     *)
(***************************************************************************)
Dec(s, e) == [sig |-> s, exp |-> e]

NoArg == Dec(-1, 0)

RECURSIVE Pow10(_)
Pow10(n) == IF n = 0 THEN 1 ELSE 10 * Pow10(n - 1)

\* The value of a decimal in hundredths, truncated as int() truncates.
DecToCents(d) == (d.sig * 100) \div Pow10(d.exp)

\* client.py:101  str(int(v * 100)) of a monetary value.
CentifyValue(v) == (v.sig * 100) \div Pow10(v.exp)

\* Numeric equality of two decimals (Decimal("12.5") == Decimal("12.50")).
DecEq(a, b) == a.sig * Pow10(b.exp) = b.sig * Pow10(a.exp)

\* The result of a Decimal division carries no trailing zeros.
RECURSIVE Reduced(_)
Reduced(d) ==
    IF d.exp > 0 /\ d.sig % 10 = 0 THEN Reduced(Dec(d.sig \div 10, d.exp - 1)) ELSE d

\* client.py:118  Decimal(v) / 100 of the digits the gateway sent.
NormalizeValue_NoDivision(n) == Dec(n, 0)

NormalizeValue(n) == Reduced(Dec(n, 2))

\* processor.py:285  refund_data.get("amount") / 100
RefundAmount(n) == Dec(n, 2)

(***************************************************************************)
(* Client._centify and Client._normalize over JSON-like data: a dict is    *)
(* the sequence of its <<key, value>> items, a list the sequence of its    *)
(* elements, a leaf a Decimal, a text, or the digits of an integer.        *)
(***************************************************************************)
Dict(items) == [t |-> "dict", items |-> items]

List(items) == [t |-> "list", items |-> items]

Decimal(d) == [t |-> "decimal", v |-> d]

Text(s) == [t |-> "str", v |-> s]

Digits(n) == [t |-> "digits", v |-> n]

\* client.py:50
_convertables == {"amount", "total", "available", "unitPrice", "totalAmount"}

\* client.py:91-106
RECURSIVE _centify(_)
_centify(d) ==
    IF d.t = "dict"
    THEN Dict([i \in 1..Len(d.items) |->
                 <<d.items[i][1],
                   IF d.items[i][1] \in _convertables
                   THEN Digits(CentifyValue(d.items[i][2].v))
                   ELSE _centify(d.items[i][2])>>])
    ELSE IF d.t = "list"
    THEN List([i \in 1..Len(d.items) |-> _centify(d.items[i])])
    ELSE d

\* client.py:108-123
RECURSIVE _normalize(_)
_normalize(d) ==
    IF d.t = "dict"
    THEN Dict([i \in 1..Len(d.items) |->
                 <<d.items[i][1],
                   IF d.items[i][1] \in _convertables
                   THEN Decimal(NormalizeValue(d.items[i][2].v))
                   ELSE _normalize(d.items[i][2])>>])
    ELSE IF d.t = "list"
    THEN List([i \in 1..Len(d.items) |-> _normalize(d.items[i])])
    ELSE d

(***************************************************************************)
(* The local payment: the django-fsm state machine of getpaid's            *)
(* AbstractPayment, as far as the processor drives it.                     *)
(***************************************************************************)
ps_NEW == "new"
ps_PREPARED == "prepared"
ps_PRE_AUTH == "pre-auth"
ps_IN_CHARGE == "charge_started"
ps_PARTIAL == "partially_paid"
ps_PAID == "paid"
ps_FAILED == "failed"
ps_REFUND_STARTED == "refund_started"
ps_REFUNDED == "refunded"

PaymentStatuses ==
    {ps_NEW, ps_PREPARED, ps_PRE_AUTH, ps_IN_CHARGE, ps_PARTIAL, ps_PAID, ps_FAILED, ps_REFUND_STARTED, ps_REFUNDED}

TransitionSource(name) ==
    CASE name = "confirm_prepared" -> {ps_NEW}
      [] name = "confirm_lock" -> {ps_NEW, ps_PREPARED}
      [] name = "confirm_charge_sent" -> {ps_PRE_AUTH}
      [] name = "confirm_payment" -> {ps_PRE_AUTH, ps_IN_CHARGE, ps_PARTIAL}
      [] name = "mark_as_paid" -> {ps_PARTIAL}
      [] name = "start_refund" -> {ps_PAID, ps_PARTIAL}
      [] name = "cancel_refund" -> {ps_REFUND_STARTED}
      [] name = "confirm_refund" -> {ps_REFUND_STARTED}
      [] name = "mark_as_refunded" -> {ps_PARTIAL}
      [] name = "fail" -> {ps_NEW, ps_PRE_AUTH, ps_PREPARED}
      [] OTHER -> {}

TransitionTarget(name) ==
    CASE name = "confirm_prepared" -> ps_PREPARED
      [] name = "confirm_lock" -> ps_PRE_AUTH
      [] name = "confirm_charge_sent" -> ps_IN_CHARGE
      [] name = "confirm_payment" -> ps_PARTIAL
      [] name = "mark_as_paid" -> ps_PAID
      [] name = "start_refund" -> ps_REFUND_STARTED
      [] name = "cancel_refund" -> ps_PARTIAL
      [] name = "confirm_refund" -> ps_PARTIAL
      [] name = "mark_as_refunded" -> ps_REFUNDED
      [] name = "fail" -> ps_FAILED
      [] OTHER -> "none"

\* The conditions= of a transition.
TransitionCondition(p, name) ==
    CASE name = "mark_as_paid" -> p.amount_paid >= DecToCents(p.amount_required)
      [] name = "mark_as_refunded" -> p.amount_refunded = p.amount_paid
      [] OTHER -> TRUE

\* django_fsm.can_proceed(payment.<name>)
can_proceed(p, name) ==
    /\ p.status \in TransitionSource(name)
    /\ TransitionCondition(p, name)

\* The body of a transition method, run before the status moves to the target.
TransitionBody(p, name, arg) ==
    CASE name = "confirm_lock" ->
            [p EXCEPT !.amount_locked = DecToCents(p.amount_required)]
      [] name = "confirm_payment" ->
            LET locked == IF p.amount_locked = 0
                          THEN DecToCents(p.amount_required)
                          ELSE p.amount_locked
            IN [p EXCEPT !.amount_paid = @ + locked, !.amount_locked = 0]
      [] name = "start_refund" ->
            [p EXCEPT !.amount_locked = DecToCents(arg)]
      [] name = "cancel_refund" ->
            [p EXCEPT !.amount_locked = 0]
      [] name = "confirm_refund" ->
            [p EXCEPT !.amount_refunded = @ + DecToCents(arg), !.amount_locked = 0]
      [] OTHER -> p

ApplyTransition(p, name, arg) ==
    [TransitionBody(p, name, arg) EXCEPT !.status = TransitionTarget(name)]

(***************************************************************************)
(* A run of processor code over its own copy of the payment: the copy, the *)
(* transitions invoked so far, and the exception that ended the run.       *)
(***************************************************************************)
Run(p) == [payment |-> p, calls |-> <<>>, raised |-> "none"]

Call(name, arg) == [name |-> name, arg |-> arg]

\* Calling a transition method: django-fsm raises TransitionNotAllowed
\* when the payment's status is no source of it or a condition fails.
Invoke(r, name, arg) ==
    IF r.raised # "none" THEN r
    ELSE IF can_proceed(r.payment, name)
         THEN [payment |-> ApplyTransition(r.payment, name, arg),
               calls |-> Append(r.calls, Call(name, arg)),
               raised |-> "none"]
         ELSE [payment |-> r.payment,
               calls |-> Append(r.calls, Call(name, arg)),
               raised |-> "TransitionNotAllowed"]

(***************************************************************************)
(* Header fields.  A header value is the sequence of its ";"-separated     *)
(* parts, each part the sequence of its "="-separated fields; the empty    *)
(* sequence is a header that is absent or empty.  A field is a text or a   *)
(* hex digest; a digest is determined by the hashlib routine, the body and *)
(* the key that were hashed (distinct inputs give distinct digests).       *)
(***************************************************************************)
Str(s) == [k |-> "str", a |-> s, b |-> "", c |-> ""]

Hex(routine, body, key) == [k |-> "hex", a |-> routine, b |-> body, c |-> key]

None == [k |-> "none", a |-> "", b |-> "", c |-> ""]

SecondKey == "second_key"

WrongKey == "guessed_key"

\* algo_name.replace("-", "").lower(), on the names the model sends.
AttrName(algo_name) ==
    CASE algo_name = "SHA-256" -> "sha256"
      [] algo_name = "MD5" -> "md5"
      [] algo_name = "BLAKE2B" -> "blake2b"
      [] algo_name = "NEW" -> "new"
      [] algo_name = "CRC32" -> "crc32"
      [] OTHER -> "unknown"

\* Attributes of the hashlib module that are hash constructors.
HashlibHashes == {"md5", "sha1", "sha256", "sha384", "sha512", "blake2b"}

\* Attributes of hashlib that exist but are no constructor taking the data.
HashlibOther == {"new", "pbkdf2_hmac"}

\* The hash functions PayU signs notifications with.
AllowedAlgorithms == {"MD5", "SHA-256"}

\* processor.py:245-247  f"{body}{second_key}" hashed by the routine, in hex.
ExpectedSignature(routine, body, key) == Hex(routine, body, key)

\* processor.py:235-237: the dict built from the header; a later part wins.
HeaderParses(raw) == \A i \in 1..Len(raw) : Len(raw[i]) = 2

HeaderKeys(raw, key) == {i \in 1..Len(raw) : raw[i][1] = Str(key)}

HeaderGet(raw, key, default) ==
    IF HeaderKeys(raw, key) = {} THEN default
    ELSE raw[CHOOSE i \in HeaderKeys(raw, key) : \A j \in HeaderKeys(raw, key) : j <= i][2]

(***************************************************************************)
(* PaymentProcessor.prepare_form_data.  A mapping is the sequence of its   *)
(* <<key, value>> items in insertion order, with no key twice.             *)
(***************************************************************************)
\* The keys of the form, in the order Python sorts strings.
FieldOrder == <<"currencyCode", "description", "merchantPosId", "totalAmount">>

HasField(post_data, key) == \E i \in 1..Len(post_data) : post_data[i][1] = key

FieldValue(post_data, key) ==
    post_data[CHOOSE i \in 1..Len(post_data) : post_data[i][1] = key][2]

\* The keys of a mapping, sorted.
SortedKeys(post_data) == SelectSeq(FieldOrder, LAMBDA key : HasField(post_data, key))

\* processor.py:89  sorted(post_data.items())
ItemsInOrder(post_data, keys) ==
    [i \in 1..Len(keys) |-> <<keys[i], FieldValue(post_data, keys[i])>>]

Sorted_InsertionOrder(post_data) == post_data

Sorted(post_data) == ItemsInOrder(post_data, SortedKeys(post_data))

\* processor.py:89  urlencode(...): "k=v&k=v" is determined by the items in
\* their order.
Urlencode(items) == [k |-> "urlencoded", items |-> items]

\* processor.py:87  the "algorithm" setting, upper-cased.
Upper(algorithm) ==
    CASE algorithm = "sha-256" -> "SHA-256"
      [] algorithm = "md5" -> "MD5"
      [] OTHER -> algorithm

\* processor.py:92-94  data["OpenPayu-Signature"] = ...: a new key goes last,
\* a key that is there keeps its place.
SetField(post_data, key, value) ==
    IF HasField(post_data, key)
    THEN [i \in 1..Len(post_data) |->
            IF post_data[i][1] = key THEN <<key, value>> ELSE post_data[i]]
    ELSE Append(post_data, <<key, value>>)

\* processor.py:84-95
prepare_form_data(post_data, algorithm) ==
    SetField(post_data, "OpenPayu-Signature",
             << <<Str("signature"),
                  Hex(AttrName(Upper(algorithm)), Urlencode(Sorted(post_data)), SecondKey)>>,
                <<Str("algorithm"), Str(Upper(algorithm))>>,
                <<Str("sender"), Str("pos_id")>> >>)

(***************************************************************************)
(* Notification bodies and json.loads of them.                             *)
(***************************************************************************)
OrderBodies == {"order:COMPLETED", "order:CANCELED",
                "order:WAITING_FOR_CONFIRMATION", "order:PENDING"}

RefundBodies == {"refund:FINALIZED:500", "refund:FINALIZED:1250",
                 "refund:CANCELED", "refund:PENDING"}

Bodies == OrderBodies \cup RefundBodies \cup {"properties"}

JsonLoads(body) ==
    CASE body = "order:COMPLETED" -> [key |-> "order", status |-> "COMPLETED", amount |-> 0]
      [] body = "order:CANCELED" -> [key |-> "order", status |-> "CANCELED", amount |-> 0]
      [] body = "order:WAITING_FOR_CONFIRMATION" ->
            [key |-> "order", status |-> "WAITING_FOR_CONFIRMATION", amount |-> 0]
      [] body = "order:PENDING" -> [key |-> "order", status |-> "PENDING", amount |-> 0]
      [] body = "order:REJECTED" -> [key |-> "order", status |-> "REJECTED", amount |-> 0]
      [] body = "refund:FINALIZED:500" -> [key |-> "refund", status |-> "FINALIZED", amount |-> 500]
      [] body = "refund:FINALIZED:1250" -> [key |-> "refund", status |-> "FINALIZED", amount |-> 1250]
      [] body = "refund:CANCELED" -> [key |-> "refund", status |-> "CANCELED", amount |-> 0]
      [] body = "refund:PENDING" -> [key |-> "refund", status |-> "PENDING", amount |-> 0]
      [] OTHER -> [key |-> "properties", status |-> "", amount |-> 0]

(***************************************************************************)
(* PaymentProcessor.handle_paywall_callback                                *)
(***************************************************************************)
\* if can_proceed(self.payment.<name>): self.payment.<name>()
InvokeIfAllowed(r, name) ==
    IF r.raised = "none" /\ can_proceed(r.payment, name)
    THEN Invoke(r, name, NoArg)
    ELSE r

\* processor.py:255-267
OrderCompleted_Unguarded(r) ==
    InvokeIfAllowed(Invoke(r, "confirm_payment", NoArg), "mark_as_paid")

OrderCompleted_ConfirmOnly(r) == InvokeIfAllowed(r, "confirm_payment")

OrderCompleted(r) ==
    IF can_proceed(r.payment, "confirm_payment")
    THEN InvokeIfAllowed(Invoke(r, "confirm_payment", NoArg), "mark_as_paid")
    ELSE r

\* processor.py:270-280
OrderWaitingForConfirmation(r) == InvokeIfAllowed(r, "confirm_lock")

\* processor.py:284-288
RefundFinalized(r, data) ==
    InvokeIfAllowed(Invoke(r, "confirm_refund", RefundAmount(data.amount)),
                    "mark_as_refunded")

\* processor.py:289-292
RefundCanceled(r) ==
    InvokeIfAllowed(Invoke(r, "cancel_refund", NoArg), "mark_as_paid")

\* processor.py:252-292: the transitions a verified notification drives.
Reconcile(p, data) ==
    IF data.key = "order"
    THEN CASE data.status = "COMPLETED" -> OrderCompleted(Run(p))
           [] data.status = "CANCELED" -> Invoke(Run(p), "fail", NoArg)
           [] data.status = "WAITING_FOR_CONFIRMATION" -> OrderWaitingForConfirmation(Run(p))
           [] OTHER -> Run(p)
    ELSE IF data.key = "refund"
    THEN CASE data.status = "FINALIZED" -> RefundFinalized(Run(p), data)
           [] data.status = "CANCELED" -> RefundCanceled(Run(p))
           [] OTHER -> Run(p)
    ELSE Run(p)

\* What a call of the handler leaves behind: the payment object, the
\* transitions invoked, the exception or the response, whether save() ran,
\* the hashlib attribute looked up and whether it was called.
Outcome(r, response, saved, lookup, invoked) ==
    [payment |-> r.payment, calls |-> r.calls, raised |-> r.raised,
     response |-> response, saved |-> saved, lookup |-> lookup, invoked |-> invoked]

Raise(p, exc, lookup, invoked) ==
    Outcome([Run(p) EXCEPT !.raised = exc], 0, FALSE, lookup, invoked)

\* processor.py:293-294: save and answer, unless a transition raised.
SaveAndRespond(r, attr) ==
    IF r.raised = "none"
    THEN Outcome(r, 200, TRUE, attr, TRUE)
    ELSE Outcome(r, 0, FALSE, attr, TRUE)

\* processor.py:249
Verified_AcceptAll(expected_signature, signature) == TRUE

Verified(expected_signature, signature) == expected_signature = signature

\* processor.py:241  getattr(hashlib, ...)
HashlibHas(attr) == attr \in HashlibHashes \cup HashlibOther

\* processor.py:241-302
CheckSignature(p, request, attr, signature) ==
    IF ~HashlibHas(attr)
    THEN Raise(p, "AttributeError", attr, FALSE)
    ELSE IF attr \notin HashlibHashes
    THEN Raise(p, "TypeError", attr, TRUE)
    ELSE IF Verified(ExpectedSignature(attr, request.body, SecondKey), signature)
    THEN SaveAndRespond(Reconcile(p, JsonLoads(request.body)), attr)
    ELSE Outcome(Run(p), 422, FALSE, attr, TRUE)

\* processor.py:222-302
handle_paywall_callback(p, request) ==
    IF request.header = <<>>
    THEN Outcome(Run(p), 400, FALSE, "", FALSE)
    ELSE IF ~HeaderParses(request.header)
    THEN Raise(p, "ValueError", "", FALSE)
    ELSE CheckSignature(p, request,
                        AttrName(HeaderGet(request.header, "algorithm", Str("MD5")).a),
                        HeaderGet(request.header, "signature", None))

(***************************************************************************)
(* client.py: the gateway client.  A response records the request it       *)
(* answers: endpoint, method, the Authorization token and body sent, the   *)
(* time it was sent at, and the HTTP status and JSON the gateway answered. *)
(***************************************************************************)
NoBody == [kind |-> "none", amount |-> -1]

NoJson == [orderId |-> "", redirectUri |-> "", status |-> "", statusCode |-> "",
           access_token |-> "", expires_in |-> 0]

NoResponse == [endpoint |-> "none", method |-> "", auth |-> "", body |-> NoBody,
               at |-> -1, code |-> 0, json |-> NoJson]

GuardedOps == {"new_order", "refund", "cancel_order", "capture", "get_order_info"}

Method(op) ==
    CASE op = "new_order" -> "POST"
      [] op = "refund" -> "POST"
      [] op = "cancel_order" -> "DELETE"
      [] op = "capture" -> "PUT"
      [] op = "get_order_info" -> "GET"
      [] OTHER -> "POST"

\* The body each operation hands to requests; capture builds a dict with
\* orderStatus COMPLETED (client.py:232) and calls requests.put without it
\* (client.py:233).
RequestBody(op, amount) ==
    CASE op = "new_order" -> [kind |-> "order", amount |-> CentifyValue(amount)]
      [] op = "refund" -> [kind |-> "refund", amount |-> CentifyValue(amount)]
      [] OTHER -> NoBody

\* client.py:189, 213, 223, 234, 245
StatusOk_Only200(op, code) == code = 200

StatusOk(op, code) ==
    IF op = "new_order" THEN code \in {200, 201, 302} ELSE code = 200

\* client.py:191, 215, 225, 236, 247
Failure(op) ==
    CASE op = "new_order" -> "LockFailure"
      [] op = "refund" -> "RefundFailure"
      [] op = "cancel_order" -> "GetPaidException"
      [] op = "capture" -> "ChargeFailure"
      [] op = "get_order_info" -> "CommunicationError"
      [] OTHER -> "GetPaidException"

\* context={"raw_response": self.last_response}, raised after the response
\* was stored: before and after are the client before and after the request.
ErrorContext(before, after) == after.last_response

\* client.py:41  the 5 seconds of ensure_auth
Skew == 5

\* client.py:41  self.token_expiration < pendulum.now().add(seconds=-5)
NeedsAuth(c, t) == c.token_expiration < t - Skew

\* What a call of the client leaves behind: the client, the exchanges with
\* the gateway, and the value returned or the error raised with its context.
ClientResult(c, wire, ok, raised, raw, json) ==
    [client |-> c, wire |-> wire, ok |-> ok, raised |-> raised, raw |-> raw, json |-> json]

NoCall(c) == ClientResult(c, <<>>, TRUE, "none", NoResponse, NoJson)

Stored(c, resp) == [c EXCEPT !.last_response = resp]

\* client.py:77-84
Authorized_StoreAnyway(c, t, resp) ==
    ClientResult([Stored(c, resp) EXCEPT !.token = resp.json.access_token,
                                         !.token_expiration = t + resp.json.expires_in],
                 <<resp>>, resp.code = 200,
                 IF resp.code = 200 THEN "none" ELSE "CredentialsError",
                 IF resp.code = 200 THEN NoResponse ELSE resp,
                 IF resp.code = 200 THEN resp.json ELSE NoJson)

Authorized(c, t, resp) ==
    IF resp.code = 200
    THEN ClientResult([Stored(c, resp) EXCEPT !.token = resp.json.access_token,
                                              !.token_expiration = t + resp.json.expires_in],
                      <<resp>>, TRUE, "none", NoResponse, resp.json)
    ELSE ClientResult(Stored(c, resp), <<resp>>, FALSE, "CredentialsError",
                      ErrorContext(c, Stored(c, resp)), NoJson)

\* client.py:67-84
Authorize(c, t, answer) ==
    Authorized(c, t, [endpoint |-> "authorize", method |-> "POST", auth |-> "",
                      body |-> NoBody, at |-> t, code |-> answer.code,
                      json |-> answer.json])

\* client.py:38-45
EnsureAuth(c, t, auth) ==
    IF NeedsAuth(c, t) THEN Authorize(c, t, auth) ELSE NoCall(c)

\* client.py:189-193 and the like: the answer of the gateway to the request.
Answered(a, resp) ==
    IF StatusOk(resp.endpoint, resp.code)
    THEN ClientResult(Stored(a.client, resp), Append(a.wire, resp), TRUE, "none",
                      NoResponse, resp.json)
    ELSE ClientResult(Stored(a.client, resp), Append(a.wire, resp), FALSE,
                      Failure(resp.endpoint),
                      ErrorContext(a.client, Stored(a.client, resp)), NoJson)

\* The wrapped function of a guarded operation, run unless _authorize raised.
Send(a, t, op, amount, answer) ==
    IF a.raised # "none" THEN a
    ELSE Answered(a, [endpoint |-> op, method |-> Method(op), auth |-> a.client.token,
                      body |-> RequestBody(op, amount), at |-> t,
                      code |-> answer.code, json |-> answer.json])

\* client.py:38-45 around client.py:125-247: a guarded operation.
ClientCall(c, t, op, amount, auth, answer) ==
    Send(EnsureAuth(c, t, auth), t, op, amount, answer)

(***************************************************************************)
(* PaymentProcessor.prepare_lock and prepare_transaction                   *)
(***************************************************************************)
FailureUrl == "failure_url"

Lock(r, call, url) == [run |-> r, call |-> call, url |-> url]

\* processor.py:333-334
Prepared_KeepId(r, response) == r

Prepared(r, response) ==
    IF r.raised = "none"
    THEN [r EXCEPT !.payment.external_id = response.json.orderId]
    ELSE r

\* processor.py:331-335
Locked(p, response) ==
    IF response.raised # "none"
    THEN Lock([Run(p) EXCEPT !.raised = response.raised], response, "")
    ELSE Lock(Prepared(Invoke(Run(p), "confirm_prepared", NoArg), response),
              response, response.json.redirectUri)

\* processor.py:326-335
prepare_lock(p, c, t, auth, answer) ==
    Locked(p, ClientCall(c, t, "new_order", p.amount_required, auth, answer))

\* except LockFailure (processor.py:199)
Caught(exc) == exc = "LockFailure"

\* What prepare_transaction leaves behind: the payment object, the
\* transitions invoked, the exception that left it, whether save() ran, the
\* redirect target, and the client call made.
PrepareResult(r, call, saved, url) ==
    [payment |-> r.payment, calls |-> r.calls, raised |-> r.raised,
     saved |-> saved, url |-> url, call |-> call]

\* processor.py:207-208
Saved(r, call, url) ==
    IF r.raised = "none"
    THEN PrepareResult(r, call, TRUE, url)
    ELSE PrepareResult(r, call, FALSE, "")

\* processor.py:196-208
AfterLock_SkipSave(p, lock) ==
    IF lock.run.raised = "none"
    THEN Saved(lock.run, lock.call, lock.url)
    ELSE PrepareResult(Invoke(Run(p), "fail", NoArg), lock.call, FALSE, FailureUrl)

AfterLock(p, lock) ==
    IF lock.run.raised = "none"
    THEN Saved(lock.run, lock.call, lock.url)
    ELSE IF Caught(lock.run.raised)
    THEN Saved(Invoke(Run(p), "fail", NoArg), lock.call, FailureUrl)
    ELSE PrepareResult(lock.run, lock.call, FALSE, "")

\* processor.py:192-220
prepare_transaction(p, c, t, method, auth, answer) ==
    IF method = "REST"
    THEN AfterLock(p, prepare_lock(p, c, t, auth, answer))
    ELSE PrepareResult(Run(p), NoCall(c), FALSE, "post_form")

(***************************************************************************)
(* PaymentProcessor.charge                                                 *)
(***************************************************************************)
\* processor.py:338-346: the result, once capture has returned or raised;
\* "success" is set for the result code SUCCESS only.
Charged(call) ==
    [call |-> call,
     raised |-> call.raised,
     success |-> call.raised = "none" /\ call.json.statusCode = "SUCCESS"]

\* processor.py:337-346
charge(c, t, auth, answer) ==
    Charged(ClientCall(c, t, "capture", NoArg, auth, answer))

(***************************************************************************)
(* PaymentProcessor.fetch_payment_status                                   *)
(***************************************************************************)
\* processor.py:310-319: the callback named for a status, "" for none.
PollCallback_UnknownFails(status) ==
    IF status = "COMPLETED" THEN "confirm_payment" ELSE "fail"

PollCallback(status) ==
    CASE status = "NEW" -> "confirm_prepared"
      [] status = "PENDING" -> "confirm_prepared"
      [] status = "CANCELED" -> "fail"
      [] status = "COMPLETED" -> "confirm_payment"
      [] status = "WAITING_FOR_CONFIRMATION" -> "confirm_lock"
      [] OTHER -> ""

\* processor.py:306-320: results, once get_order_info has returned or raised.
Polled(call) ==
    [call |-> call,
     raised |-> call.raised,
     callback |-> IF call.raised = "none" THEN PollCallback(call.json.status) ELSE ""]

\* processor.py:304-320
fetch_payment_status(c, t, auth, answer) ==
    Polled(ClientCall(c, t, "get_order_info", NoArg, auth, answer))

(***************************************************************************)
(* Inputs: what the gateway, and anybody else who can reach the callback   *)
(* URL, may send.                                                          *)
(***************************************************************************)
Request(header, body) == [header |-> header, body |-> body]

NoRequest == Request(<<>>, "")

SignedHeader(algo_name, body, key) ==
    << <<Str("signature"), Hex(AttrName(algo_name), body, key)>>,
       <<Str("algorithm"), Str(algo_name)>>,
       <<Str("sender"), Str("pos_id")>> >>

\* Notifications signed by the gateway, which holds the second key; the
\* algorithm part may be left out of the header (MD5 is then meant).
GatewayRequests ==
    {Request(SignedHeader(a, b, SecondKey), b) : a \in AllowedAlgorithms, b \in Bodies}
    \cup {Request(<< <<Str("signature"), Hex("md5", b, SecondKey)>> >>, b) :
             b \in {"order:COMPLETED", "refund:FINALIZED:500"}}

ForgedBodies == {"order:COMPLETED", "refund:FINALIZED:500"}

\* Requests of a sender without the second key: no header, a signature
\* taken from another notification, a guessed key, a header that is no list
\* of key=value pairs, one without a signature, other algorithm names.
ForgedRequests ==
    {Request(<<>>, b) : b \in ForgedBodies}
    \cup {Request(SignedHeader("SHA-256", b2, SecondKey), b) :
             b \in ForgedBodies, b2 \in {"order:PENDING", "refund:FINALIZED:1250"}}
    \cup {Request(SignedHeader(a, b, WrongKey), b) :
             a \in {"SHA-256", "BLAKE2B", "NEW", "CRC32"}, b \in ForgedBodies}
    \cup {Request(<< <<Str("signature")>> >>, b) : b \in ForgedBodies}
    \cup {Request(<< <<Str("signature"), Str("c2ln"), Str("")>>,
                     <<Str("algorithm"), Str("SHA-256")>> >>, b) : b \in ForgedBodies}
    \cup {Request(<< <<Str("algorithm"), Str("SHA-256")>>,
                     <<Str("sender"), Str("pos_id")>> >>, b) : b \in ForgedBodies}

Requests == GatewayRequests \cup ForgedRequests

\* The notifications of one payment's life, as the gateway signs them.
RaceRequests ==
    {Request(SignedHeader("SHA-256", b, SecondKey), b) :
        b \in {"order:WAITING_FOR_CONFIRMATION", "order:COMPLETED",
               "refund:FINALIZED:500", "refund:CANCELED"}}

HttpCodes == {200, 201, 302, 400, 500}

OrderIds == {"X1", "X2"}

RedirectUri == "https://secure.payu.com/pay"

Answer(code, orderId) ==
    [code |-> code,
     json |-> [NoJson EXCEPT !.orderId = orderId, !.redirectUri = RedirectUri,
                             !.status = "PENDING", !.statusCode = "SUCCESS"]]

\* Answers of the gateway to an order, to any operation, to a token request.
OrderAnswers == {Answer(c, x) : c \in HttpCodes, x \in OrderIds}

Answers == {Answer(c, "X1") : c \in HttpCodes}

\* Only a 200 of the token endpoint carries a token and its lifetime.
AuthAnswer(code) ==
    [code |-> code,
     json |-> IF code = 200
              THEN [NoJson EXCEPT !.access_token = "Bearer B", !.expires_in = 10]
              ELSE NoJson]

AuthAnswers == {AuthAnswer(c) : c \in {200, 401}}

\* Order statuses the gateway reports; the last is one the code does not know.
OrderStatuses == {"NEW", "PENDING", "WAITING_FOR_CONFIRMATION", "COMPLETED", "CANCELED",
                  "REJECTED"}

\* Answers to get_order_info: the order in one of its statuses.
StatusAnswers ==
    {[Answer(c, "X1") EXCEPT !.json.status = s] : c \in {200, 500}, s \in OrderStatuses}

\* Answers to capture: the HTTP status and the result code of the gateway.
ChargeAnswers ==
    {[Answer(c, "X1") EXCEPT !.json.statusCode = r] :
        c \in HttpCodes, r \in {"SUCCESS", "ERROR_INTERNAL", ""}}

\* Order and refund notifications the gateway signs, known statuses and new.
PollRequests ==
    {Request(SignedHeader("SHA-256", b, SecondKey), b) :
        b \in {"order:WAITING_FOR_CONFIRMATION", "order:COMPLETED", "order:PENDING",
               "order:REJECTED", "refund:PENDING", "properties"}}

AmountsRequired == {Dec(1250, 2), Dec(5, 0)}

RefundAmounts == {Dec(5, 0), Dec(1250, 2)}

\* Decimal amounts of at most two fractional digits.
Amounts == {Dec(1250, 2), Dec(125, 1), Dec(5, 0), Dec(1, 2), Dec(0, 0), Dec(-1999, 2)}

\* Keys of an order item: the monetary ones, and two that are not.
ItemKeys == _convertables \cup {"quantity", "vat"}

\* Order data as new_order builds it (client.py:153-185): a total, a text,
\* and a list of products, each a dict of a name and a number.
Order(total, key, number) ==
    Dict(<< <<"totalAmount", Decimal(total)>>,
            <<"currencyCode", Text("EUR")>>,
            <<"buyer", Dict(<< <<"email", Text("a@b.c")>> >>)>>,
            <<"products", List(<< Dict(<< <<"name", Text("book")>>,
                                          <<key, Decimal(number)>> >>) >>)>> >>)

Payloads == {Order(a, k, b) : a \in Amounts, k \in ItemKeys, b \in Amounts}

\* The fields of a form, with one description or another.
AllFields(description) ==
    {<<"currencyCode", "EUR">>, <<"description", description>>,
     <<"merchantPosId", "145227">>, <<"totalAmount", "1250">>}

\* The items of a form: three of the four fields.
FormItems ==
    {AllFields(d) \ {f} : d \in {"Payment order", "a b"}, f \in AllFields("a b")}

\* The mappings that hold the items of a set, one per insertion order.
Orders(items) ==
    {m \in [1..Cardinality(items) -> items] : \A i, j \in DOMAIN m : m[i] = m[j] => i = j}

SameItems(m, n) == {m[i] : i \in DOMAIN m} = {n[i] : i \in DOMAIN n}

(***************************************************************************)
(* State.                                                                  *)
(***************************************************************************)
Handlers == {1, 2}

NewPayment(amount) ==
    [status |-> ps_NEW, amount_required |-> amount, amount_paid |-> 0,
     amount_locked |-> 0, amount_refunded |-> 0, external_id |-> ""]

NoPayment == [NewPayment(Dec(0, 0)) EXCEPT !.status = "none"]

Idle == [pc |-> "idle", payment |-> NoPayment, request |-> NoRequest]

\* The most recently completed operation and what it did; before is the
\* payment object the operation worked on, row the persisted payment when it
\* ran.
NoLast ==
    [seq |-> 0, op |-> "none", request |-> NoRequest, before |-> NoPayment,
     row |-> NoPayment, after |-> NoPayment, calls |-> <<>>, raised |-> "none", response |-> 0,
     saved |-> FALSE, lookup |-> "", invoked |-> FALSE, url |-> "",
     callback |-> "", success |-> FALSE,
     at |-> 0, expiry |-> 0, wire |-> <<>>, ok |-> FALSE, raw |-> NoResponse,
     json |-> NoJson]

\* The threads that call the shared client.
Callers == {1, 2}

\* A thread that is not inside a guarded operation.
Outside == [pc |-> "idle", seen |-> -1, resp |-> NoResponse]

\* One _authorize call: the token it was answered, the expiry that made the
\* caller refresh, and the expiry it stored (0 until it has).
Authorization(token, seen, expiry) == [token |-> token, seen |-> seen, expiry |-> expiry]

\* No prepare_transaction is under way.
NoFlow == [pc |-> "idle"]

\* The argument of a conversion, and what the conversions made of it so far.
NoData == [pc |-> "none", input |-> List(<<>>), value |-> List(<<>>)]

\* Two mappings handed to prepare_form_data, and what it returned for each.
NoForm == [pc |-> "none", algorithm |-> "", first |-> <<>>, second |-> <<>>]

\* Client(...) has authorized once when it was constructed (client.py:65).
Start ==
    /\ db \in {NewPayment(a) : a \in AmountsRequired}
    /\ handler = [h \in Handlers |-> Idle]
    /\ last = NoLast
    /\ now = 0
    /\ client = Authorize([token |-> "", token_expiration |-> 0,
                           last_response |-> NoResponse], 0, AuthAnswer(200)).client
    /\ refund_confirmations = 0
    /\ refunds_started = 0
    /\ deliveries = 0
    /\ caller = [k \in Callers |-> Outside]
    /\ authorizations = {Authorization(AuthAnswer(200).json.access_token, -1, 10)}
    /\ flow = NoFlow
    /\ gateway = {}

Init ==
    /\ Start
    /\ payload = NoData
    /\ form = NoForm

\* Any two mappings of the same items, in any two orders.
InitForm ==
    /\ Start
    /\ payload = NoData
    /\ form \in {[pc |-> "input", algorithm |-> a, first |-> m, second |-> n] :
                    a \in {"SHA-256", "md5"},
                    m \in UNION {Orders(items) : items \in FormItems},
                    n \in UNION {Orders(items) : items \in FormItems}}
    /\ SameItems(form.first, form.second)

\* Any order data handed to the conversions.
InitUnits ==
    /\ Start
    /\ payload \in {[pc |-> "input", input |-> d, value |-> d] : d \in Payloads}
    /\ form = NoForm

(***************************************************************************)
(* Operations.                                                             *)
(***************************************************************************)
\* views.py:22-47: the view fetches the payment and hands it the request.
Receive(h, request) ==
    /\ handler[h].pc = "idle"
    /\ deliveries < MaxDeliveries
    /\ deliveries' = deliveries + 1
    /\ handler' = [handler EXCEPT ![h] = [pc |-> "loaded", payment |-> db, request |-> request]]
    /\ UNCHANGED <<db, last, client, now, refund_confirmations, refunds_started>>
    /\ UNCHANGED others

\* The calls of a transition that went through in a run.
Applied(out, name) ==
    Cardinality({i \in 1..Len(out.calls) :
                    /\ out.calls[i].name = name
                    /\ ~(i = Len(out.calls) /\ out.raised = "TransitionNotAllowed")})

\* The record of a finished run of the handler.
CallbackRecord(payment, request, out) ==
    [NoLast EXCEPT !.seq = 1 - last.seq, !.op = "callback",
                   !.request = request,
                   !.before = payment, !.row = db, !.after = out.payment,
                   !.calls = out.calls, !.raised = out.raised,
                   !.response = out.response, !.saved = out.saved,
                   !.lookup = out.lookup, !.invoked = out.invoked]

\* processor.py:222-302 on the payment the view fetched; save() writes the row.
Handle(h) ==
    /\ handler[h].pc = "loaded"
    /\ \E out \in {handle_paywall_callback(handler[h].payment, handler[h].request)} :
          /\ db' = IF out.saved THEN out.payment ELSE db
          /\ last' = CallbackRecord(handler[h].payment, handler[h].request, out)
          /\ refund_confirmations' = refund_confirmations + Applied(out, "confirm_refund")
    /\ handler' = [handler EXCEPT ![h] = Idle]
    /\ UNCHANGED <<client, now, refunds_started, deliveries>>
    /\ UNCHANGED others

\* views.py:22-47 and processor.py:222-302 with no other request in between.
Deliver(request) ==
    /\ \A h \in Handlers : handler[h].pc = "idle"
    /\ \E out \in {handle_paywall_callback(db, request)} :
          /\ db' = IF out.saved THEN out.payment ELSE db
          /\ last' = CallbackRecord(db, request, out)
          /\ refund_confirmations' = refund_confirmations + Applied(out, "confirm_refund")
    /\ UNCHANGED <<handler, client, now, refunds_started, deliveries>>
    /\ UNCHANGED others

\* A refund is started for a paid payment (Payment.start_refund).
StartRefund(amount) ==
    /\ refunds_started < MaxRefunds
    /\ \A h \in Handlers : handler[h].pc = "idle"
    /\ can_proceed(db, "start_refund")
    /\ DecToCents(amount) <= db.amount_paid - db.amount_refunded
    /\ db' = ApplyTransition(db, "start_refund", amount)
    /\ refunds_started' = refunds_started + 1
    /\ refund_confirmations' = 0
    /\ UNCHANGED <<handler, last, client, now, deliveries>>
    /\ UNCHANGED others

\* The record of a finished prepare_transaction.
PrepareRecord(method, before, c, t, out) ==
    [NoLast EXCEPT !.seq = 1 - last.seq, !.op = "prepare_" \o method,
                   !.before = before, !.after = out.payment,
                   !.calls = out.calls, !.raised = out.raised,
                   !.saved = out.saved, !.url = out.url,
                   !.at = t, !.expiry = c.token_expiration,
                   !.wire = out.call.wire, !.ok = out.call.ok,
                   !.raw = out.call.raw, !.json = out.call.json]

\* processor.py:192-220 at time t, for a payment that was just created.
PrepareTransaction(t, method, auth, answer) ==
    /\ db.status = ps_NEW
    /\ \A h \in Handlers : handler[h].pc = "idle"
    /\ \E out \in {prepare_transaction(db, client, t, method, auth, answer)} :
          /\ db' = IF out.saved THEN out.payment ELSE db
          /\ client' = out.call.client
          /\ last' = PrepareRecord(method, db, client, t, out)
    /\ now' = t
    /\ UNCHANGED <<handler, refund_confirmations, refunds_started, deliveries>>
    /\ UNCHANGED others

\* The record of a finished fetch_payment_status.
PollRecord(c, t, out) ==
    [NoLast EXCEPT !.seq = 1 - last.seq, !.op = "fetch_payment_status",
                   !.before = db, !.row = db, !.after = db,
                   !.raised = out.raised, !.callback = out.callback,
                   !.at = t, !.expiry = c.token_expiration,
                   !.wire = out.call.wire, !.ok = out.call.ok,
                   !.raw = out.call.raw, !.json = out.call.json]

\* processor.py:304-320 at time t: the status is asked for, a callback named.
FetchPaymentStatus(t, auth, answer) ==
    /\ \A h \in Handlers : handler[h].pc = "idle"
    /\ \E out \in {fetch_payment_status(client, t, auth, answer)} :
          /\ client' = out.call.client
          /\ last' = PollRecord(client, t, out)
    /\ now' = t
    /\ UNCHANGED <<db, handler, refund_confirmations, refunds_started, deliveries>>
    /\ UNCHANGED others

\* The order ids the gateway has created an order for in this call.
Created(call) ==
    IF call.ok /\ call.wire # <<>> /\ call.wire[Len(call.wire)].endpoint = "new_order"
    THEN {call.json.orderId}
    ELSE {}

\* processor.py:192-198 inside atomic(): new_order has been answered, and
\* the payment object holds what is to be saved; nothing is written yet.
PrepareSend(t, auth, answer) ==
    /\ db.status = ps_NEW
    /\ flow.pc = "idle"
    /\ \E out \in {prepare_transaction(db, client, t, "REST", auth, answer)} :
          /\ flow' = [pc |-> "sent", before |-> db, client |-> client, at |-> t, out |-> out]
          /\ client' = out.call.client
          /\ gateway' = gateway \cup Created(out.call)
    /\ now' = t
    /\ UNCHANGED <<db, handler, last, refund_confirmations, refunds_started, deliveries,
                   caller, authorizations, payload, form>>

\* processor.py:207-208: save() and the commit of atomic().
PrepareCommit ==
    /\ flow.pc = "sent"
    /\ db' = IF flow.out.saved THEN flow.out.payment ELSE db
    /\ last' = PrepareRecord("REST", flow.before, flow.client, flow.at, flow.out)
    /\ flow' = NoFlow
    /\ UNCHANGED <<handler, client, now, refund_confirmations, refunds_started, deliveries,
                   caller, authorizations, gateway, payload, form>>

\* The process dies before the commit: atomic() has nothing to roll back in
\* the database, and the payment object is lost.
Crash ==
    /\ flow.pc = "sent"
    /\ flow' = NoFlow
    /\ UNCHANGED <<db, handler, last, client, now, refund_confirmations, refunds_started,
                   deliveries, caller, authorizations, gateway, payload, form>>

\* The record of a finished charge.
ChargeRecord(c, t, out) ==
    [NoLast EXCEPT !.seq = 1 - last.seq, !.op = "charge",
                   !.before = db, !.row = db, !.after = db,
                   !.raised = out.raised, !.success = out.success,
                   !.at = t, !.expiry = c.token_expiration,
                   !.wire = out.call.wire, !.ok = out.call.ok,
                   !.raw = out.call.raw, !.json = out.call.json]

\* processor.py:337-346 at time t.
Charge(t, auth, answer) ==
    /\ \E out \in {charge(client, t, auth, answer)} :
          /\ client' = out.call.client
          /\ last' = ChargeRecord(client, t, out)
    /\ now' = t
    /\ UNCHANGED <<db, handler, refund_confirmations, refunds_started, deliveries>>
    /\ UNCHANGED others

\* The next payment of the shop.
CreatePayment(amount) ==
    /\ db.status \in {ps_PREPARED, ps_FAILED}
    /\ db' = NewPayment(amount)
    /\ UNCHANGED <<handler, last, client, now, refund_confirmations, refunds_started, deliveries>>
    /\ UNCHANGED others

\* The record of a finished call of the client.
ClientRecord(op, c, t, out) ==
    [NoLast EXCEPT !.seq = 1 - last.seq, !.op = op,
                   !.at = t, !.expiry = c.token_expiration,
                   !.wire = out.wire, !.ok = out.ok,
                   !.raised = out.raised, !.raw = out.raw, !.json = out.json]

\* client.py:125-247: one guarded operation of the client, at time t.
CallClient(t, op, amount, auth, answer) ==
    /\ \E out \in {ClientCall(client, t, op, amount, auth, answer)} :
          /\ client' = out.client
          /\ last' = ClientRecord(op, client, t, out)
    /\ now' = t
    /\ UNCHANGED <<db, handler, refund_confirmations, refunds_started, deliveries>>
    /\ UNCHANGED others

(***************************************************************************)
(* A guarded operation of the client, statement by statement, as threads   *)
(* sharing the client run it: nothing in client.py holds a lock.           *)
(***************************************************************************)
\* The tokens the gateway hands out, one per token request.
TokenOf(n) == <<"Bearer B1", "Bearer B2", "Bearer B3", "Bearer B4">>[n]

\* expires_in of a token response.
Lifetimes == {10, 20}

\* client.py:40  a thread enters the wrapper of a guarded operation.
Enter(k, t) ==
    /\ caller[k].pc = "idle"
    /\ caller' = [caller EXCEPT ![k].pc = "check"]
    /\ now' = t
    /\ UNCHANGED <<db, handler, last, client, refund_confirmations, refunds_started,
                   deliveries, authorizations, flow, gateway, payload, form>>

\* client.py:41  if self.token_expiration < pendulum.now().add(seconds=-5)
CheckExpiry(k) ==
    /\ caller[k].pc = "check"
    /\ caller' = [caller EXCEPT ![k].pc = IF NeedsAuth(client, now) THEN "authorize" ELSE "call",
                                ![k].seen = client.token_expiration]
    /\ UNCHANGED <<db, handler, last, client, now, refund_confirmations, refunds_started,
                   deliveries, authorizations, flow, gateway, payload, form>>

\* client.py:69-76  self.last_response = requests.post(<token endpoint>)
RequestToken(k, lifetime) ==
    /\ caller[k].pc = "authorize"
    /\ \E resp \in {[endpoint |-> "authorize", method |-> "POST", auth |-> "",
                      body |-> NoBody, at |-> now, code |-> 200,
                      json |-> [NoJson EXCEPT
                                  !.access_token = TokenOf(Cardinality(authorizations)),
                                  !.expires_in = lifetime]]} :
          /\ client' = Stored(client, resp)
          /\ caller' = [caller EXCEPT ![k].pc = "token", ![k].resp = resp]
          /\ authorizations' = authorizations
                \cup {Authorization(resp.json.access_token, caller[k].seen, 0)}
    /\ UNCHANGED <<db, handler, last, now, refund_confirmations, refunds_started,
                   deliveries, flow, gateway, payload, form>>

\* client.py:79  self.token = ...
StoreToken(k) ==
    /\ caller[k].pc = "token"
    /\ client' = [client EXCEPT !.token = caller[k].resp.json.access_token]
    /\ caller' = [caller EXCEPT ![k].pc = "expiry"]
    /\ UNCHANGED <<db, handler, last, now, refund_confirmations, refunds_started,
                   deliveries, authorizations, flow, gateway, payload, form>>

\* client.py:80  self.token_expiration = pendulum.now().add(seconds=expires_in)
StoreExpiry(k) ==
    /\ caller[k].pc = "expiry"
    /\ client' = [client EXCEPT !.token_expiration = now + caller[k].resp.json.expires_in]
    /\ caller' = [caller EXCEPT ![k].pc = "call"]
    /\ authorizations' =
          {IF a.token = caller[k].resp.json.access_token
           THEN Authorization(a.token, a.seen, now + caller[k].resp.json.expires_in)
           ELSE a : a \in authorizations}
    /\ UNCHANGED <<db, handler, last, now, refund_confirmations, refunds_started,
                   deliveries, flow, gateway, payload, form>>

\* client.py:43  the wrapped operation sends its request with self.token.
Operate(k, answer) ==
    /\ caller[k].pc = "call"
    /\ client' = Stored(client, [endpoint |-> "get_order_info", method |-> "GET",
                                 auth |-> client.token, body |-> NoBody, at |-> now,
                                 code |-> answer.code, json |-> answer.json])
    /\ caller' = [caller EXCEPT ![k] = Outside]
    /\ UNCHANGED <<db, handler, last, now, refund_confirmations, refunds_started,
                   deliveries, authorizations, flow, gateway, payload, form>>

\* client.py:91-106 applied to the data.
Centify ==
    /\ payload.pc = "input"
    /\ payload' = [payload EXCEPT !.pc = "centified", !.value = _centify(payload.value)]
    /\ UNCHANGED <<db, handler, last, client, now, refund_confirmations, refunds_started,
                   deliveries, caller, authorizations, flow, gateway, form>>

\* client.py:108-123 applied to what _centify returned.
Normalize ==
    /\ payload.pc = "centified"
    /\ payload' = [payload EXCEPT !.pc = "normalized", !.value = _normalize(payload.value)]
    /\ UNCHANGED <<db, handler, last, client, now, refund_confirmations, refunds_started,
                   deliveries, caller, authorizations, flow, gateway, form>>

\* processor.py:84-95 on the first mapping, then on the second.
SignFirst ==
    /\ form.pc = "input"
    /\ form' = [form EXCEPT !.pc = "first",
                            !.first = prepare_form_data(form.first, form.algorithm)]
    /\ UNCHANGED <<db, handler, last, client, now, refund_confirmations, refunds_started,
                   deliveries, caller, authorizations, flow, gateway, payload>>

SignSecond ==
    /\ form.pc = "first"
    /\ form' = [form EXCEPT !.pc = "both",
                            !.second = prepare_form_data(form.second, form.algorithm)]
    /\ UNCHANGED <<db, handler, last, client, now, refund_confirmations, refunds_started,
                   deliveries, caller, authorizations, flow, gateway, payload>>

(***************************************************************************)
(* Specifications.                                                         *)
(***************************************************************************)
\* The times the next operation may happen at.
Later == {t \in {now, now + 1, now + 3, now + 6} : t <= MaxTime}

\* Notifications handled one after another.
Next ==
    \/ \E auth \in AuthAnswers, answer \in OrderAnswers :
          PrepareTransaction(now, "REST", auth, answer)
    \/ \E request \in Requests : Deliver(request)
    \/ \E amount \in RefundAmounts : StartRefund(amount)

Spec == Init /\ [][Next]_vars

\* Deliveries of gateway notifications handled by concurrent workers.
NextRace ==
    \/ \E h \in Handlers, request \in RaceRequests : Receive(h, request)
    \/ \E h \in Handlers : Handle(h)
    \/ \E amount \in RefundAmounts : StartRefund(amount)

SpecRace == Init /\ [][NextRace]_vars

\* The client alone, as time passes between its calls.
NextClient ==
    \E t \in Later, op \in GuardedOps, auth \in AuthAnswers, answer \in Answers :
       CallClient(t, op, Dec(1250, 2), auth, answer)

SpecClient == Init /\ [][NextClient]_vars

\* Locked payments being charged, as time passes.
NextCharge ==
    \E t \in Later, auth \in AuthAnswers, answer \in ChargeAnswers : Charge(t, auth, answer)

SpecCharge == Init /\ [][NextCharge]_vars

\* One payment being prepared by a process that may die on the way.
NextCrash ==
    \/ \E t \in Later, auth \in AuthAnswers, answer \in OrderAnswers :
          PrepareSend(t, auth, answer)
    \/ PrepareCommit
    \/ Crash

SpecCrash == Init /\ [][NextCrash]_vars

\* A payment whose status is polled while notifications of it come in.
NextPoll ==
    \/ \E t \in Later, auth \in AuthAnswers, answer \in StatusAnswers :
          FetchPaymentStatus(t, auth, answer)
    \/ \E request \in PollRequests : Deliver(request)

SpecPoll == Init /\ [][NextPoll]_vars

\* The form signature of two mappings.
NextForm == SignFirst \/ SignSecond

SpecForm == InitForm /\ [][NextForm]_vars

\* The unit conversions, there and back.
NextUnits == Centify \/ Normalize

SpecUnits == InitUnits /\ [][NextUnits]_vars

\* Threads sharing one client, as time passes.
NextRefresh ==
    \/ \E k \in Callers, t \in Later : Enter(k, t)
    \/ \E k \in Callers : CheckExpiry(k)
    \/ \E k \in Callers, lifetime \in Lifetimes : RequestToken(k, lifetime)
    \/ \E k \in Callers : StoreToken(k)
    \/ \E k \in Callers : StoreExpiry(k)
    \/ \E k \in Callers, answer \in {Answer(200, "X1")} : Operate(k, answer)

SpecRefresh == Init /\ [][NextRefresh]_vars

\* Payments being prepared one after another, as time passes.
NextPrepare ==
    \/ \E t \in Later, method \in {"REST", "POST"}, auth \in AuthAnswers,
          answer \in OrderAnswers :
          PrepareTransaction(t, method, auth, answer)
    \/ \E amount \in AmountsRequired : CreatePayment(amount)

SpecPrepare == Init /\ [][NextPrepare]_vars

(***************************************************************************)
(* Properties.                                                             *)
(***************************************************************************)
CallNames(calls) == [i \in 1..Len(calls) |-> calls[i].name]

\* The last operation was a run of the callback handler.
Callback == last.op = "callback"

\* The row as the last run of the handler left it.
LeftByLast == db = IF last.saved THEN last.after ELSE last.before

\* The last run handled a notification the gateway signed, with this body.
GatewayNotified(body) ==
    /\ Callback
    /\ last.request \in GatewayRequests
    /\ last.request.body = body

\* The algorithm and the signature the header of the last request claims.
ClaimedAlgorithm == HeaderGet(last.request.header, "algorithm", Str("MD5")).a

ClaimedSignature == HeaderGet(last.request.header, "signature", None)

WellFormedHeader ==
    /\ last.request.header # <<>>
    /\ HeaderParses(last.request.header)

\* C1: when the same COMPLETED notification, signed by the gateway, is
\* handled twice in a row, the second run invokes no transition and leaves
\* the payment as it was, and the first invoked confirm_payment and
\* mark_as_paid once each if the payment could be confirmed, and nothing
\* otherwise: over both runs each takes effect once.
C1_CompletedTwiceAppliesOnce ==
    [][(/\ GatewayNotified("order:COMPLETED")
        /\ LeftByLast
        /\ last'.seq # last.seq
        /\ last'.op = "callback"
        /\ last'.request = last.request)
       => /\ last'.calls = <<>>
          /\ last'.after = last'.before
          /\ last'.response = 200
          /\ db' = db
          /\ CallNames(last.calls) =
                IF can_proceed(last.before, "confirm_payment")
                THEN <<"confirm_payment", "mark_as_paid">>
                ELSE <<>>]_vars

\* A COMPLETED notification found the payment paid by an earlier one, and
\* was skipped.
C1_Witness ==
    /\ GatewayNotified("order:COMPLETED")
    /\ last.before.status = ps_PAID
    /\ last.before.amount_paid = DecToCents(last.before.amount_required)
    /\ last.calls = <<>>
    /\ last.response = 200
    /\ db = last.before

\* C2: confirm_refund goes through at most once for a refund, whatever the
\* interleaving of the runs that deliver its FINALIZED status.
C2_ConfirmRefundAtMostOnce == refund_confirmations <= 1

\* The first exchange of the last client call was a token request.
Reauthorized == last.wire # <<>> /\ last.wire[1].endpoint = "authorize"

\* C3: a guarded operation re-authorizes before its request exactly when
\* now >= expiry - 5 seconds.
C3_ReauthorizesFiveSecondsEarly ==
    last.op \in GuardedOps => (Reauthorized <=> last.at >= last.expiry - 5)

\* C4: a request whose claimed signature is not the hash of its body and the
\* second key under the algorithm its header names is answered 422, with no
\* transition invoked and the payment neither changed nor saved.
C4_BadSignatureRejected ==
    (/\ Callback
     /\ WellFormedHeader
     /\ AttrName(ClaimedAlgorithm) \in HashlibHashes
     /\ ClaimedSignature # Hex(AttrName(ClaimedAlgorithm), last.request.body, SecondKey))
    => /\ last.response = 422
       /\ last.raised = "none"
       /\ last.calls = <<>>
       /\ ~last.saved
       /\ last.after = last.before

\* The signature of another notification was sent with this body: 422.
C4_Witness ==
    /\ Callback
    /\ WellFormedHeader
    /\ last.request.body = "refund:FINALIZED:500"
    /\ ClaimedSignature = Hex("sha256", "refund:FINALIZED:1250", SecondKey)
    /\ last.response = 422
    /\ last.before.status = ps_REFUND_STARTED
    /\ db = last.before

\* C5: a header that is absent or empty, is no list of key=value pairs, or
\* has no signature is rejected (400 when absent, else 400 or 422) without
\* an exception and without a transition.
C5_HeaderFailsClosed ==
    (/\ Callback
     /\ \/ ~WellFormedHeader
        \/ HeaderKeys(last.request.header, "signature") = {})
    => /\ last.raised = "none"
       /\ last.response \in {400, 422}
       /\ (last.request.header = <<>> => last.response = 400)
       /\ last.calls = <<>>

\* C6: a header naming an algorithm outside the allow-list is rejected, no
\* attribute of hashlib is looked up or called for it, the payment is
\* unchanged.
C6_AlgorithmAllowList ==
    (/\ Callback
     /\ WellFormedHeader
     /\ ClaimedAlgorithm \notin AllowedAlgorithms)
    => /\ last.lookup = ""
       /\ ~last.invoked
       /\ last.raised = "none"
       /\ last.response \in {400, 422}
       /\ ~last.saved
       /\ last.after = last.before

\* C7: a FINALIZED refund notification of N minor units, signed by the
\* gateway, invokes confirm_refund(N/100), then mark_as_refunded only if it
\* is permitted; the payment is saved and 200 returned.
C7_RefundFinalized ==
    \A n \in {500, 1250} :
       GatewayNotified(IF n = 500 THEN "refund:FINALIZED:500" ELSE "refund:FINALIZED:1250")
       => /\ Len(last.calls) \in {1, 2}
          /\ last.calls[1] = Call("confirm_refund", Dec(n, 2))
          /\ Len(last.calls) = 2 =>
                /\ last.calls[2] = Call("mark_as_refunded", NoArg)
                /\ last.after.status = ps_REFUNDED
          /\ last.saved
          /\ last.response = 200

\* The request the last operation sent to the orders endpoint.
OrderRequest == last.wire[Len(last.wire)]

\* C8: a REST prepare_transaction whose order the gateway accepts invokes
\* confirm_prepared once, stores the returned orderId as external id, saves
\* the payment, redirects to redirectUri, and has sent the amount in minor
\* units (12.50 as 1250).
C8_PrepareAccepted ==
    (last.op = "prepare_REST" /\ last.ok)
    => /\ CallNames(last.calls) = <<"confirm_prepared">>
       /\ last.raised = "none"
       /\ last.after.status = ps_PREPARED
       /\ last.after.external_id = last.json.orderId
       /\ last.json.orderId \in OrderIds
       /\ last.saved
       /\ db.status # ps_NEW => db = last.after
       /\ last.url = RedirectUri
       /\ OrderRequest.endpoint = "new_order"
       /\ OrderRequest.code \in {200, 201, 302}
       /\ OrderRequest.body.amount * Pow10(last.before.amount_required.exp)
             = last.before.amount_required.sig * 100
       /\ last.before.amount_required = Dec(1250, 2) => OrderRequest.body.amount = 1250

\* 12.50 was sent as 1250, answered 201 with orderId X1, and X1 is stored.
C8_Witness ==
    /\ last.op = "prepare_REST"
    /\ last.ok
    /\ last.before.amount_required = Dec(1250, 2)
    /\ OrderRequest.body.amount = 1250
    /\ OrderRequest.code = 201
    /\ db.status = ps_PREPARED
    /\ db.external_id = "X1"

\* C9: whatever fails while the order is prepared, prepare_transaction
\* raises nothing: it calls fail() and redirects to the failure URL.
C9_PrepareFailuresCaught ==
    (last.op = "prepare_REST" /\ ~last.ok)
    => /\ last.raised = "none"
       /\ CallNames(last.calls) = <<"fail">>
       /\ last.url = FailureUrl

\* The error each operation raises for a status it does not accept.
C10_Error(op) ==
    CASE op = "new_order" -> "LockFailure"
      [] op = "refund" -> "RefundFailure"
      [] op = "cancel_order" -> "GetPaidException"
      [] op = "capture" -> "ChargeFailure"
      [] op = "get_order_info" -> "CommunicationError"
      [] op = "authorize" -> "CredentialsError"

\* C10: the outcome of a client operation follows the HTTP status of its
\* last request (new_order: 200, 201, 302; the others and _authorize: 200),
\* the error is the operation's own, and carries that request's response.
C10_StatusMapping ==
    last.op \in GuardedOps
    => /\ last.wire # <<>>
       /\ OrderRequest.endpoint \in {last.op, "authorize"}
       /\ last.ok <=> /\ OrderRequest.endpoint = last.op
                      /\ OrderRequest.code \in
                            (IF last.op = "new_order" THEN {200, 201, 302} ELSE {200})
       /\ last.ok => last.raised = "none"
       /\ ~last.ok => /\ last.raised = C10_Error(OrderRequest.endpoint)
                      /\ last.raw = OrderRequest
       /\ OrderRequest.endpoint = "authorize" => OrderRequest.code # 200
       /\ \A i \in 1..(Len(last.wire) - 1) :
             last.wire[i].endpoint = "authorize" /\ last.wire[i].code = 200

\* cancel_order answered 201: GetPaidException carrying that response.
C10_Witness ==
    /\ last.op = "cancel_order"
    /\ OrderRequest.endpoint = "cancel_order"
    /\ OrderRequest.code = 201
    /\ last.raised = "GetPaidException"
    /\ last.raw = OrderRequest
    /\ client.last_response = OrderRequest

\* C11: threads that find the token expired together make one token request
\* between them, and once all have left the client the stored token and the
\* stored expiry come from the same token response.
C11_RefreshesCollapse ==
    /\ \A a, b \in authorizations : (a.seen = b.seen) => (a = b)
    /\ (\A k \in Callers : caller[k].pc = "idle")
          => \E a \in authorizations :
                a.token = client.token /\ a.expiry = client.token_expiration

\* C12: a handler of a COMPLETED notification that runs when another handler
\* has already left the persisted payment paid applies neither
\* confirm_payment nor mark_as_paid again.
C12_CompletedSerialized ==
    (GatewayNotified("order:COMPLETED") /\ last.row.status = ps_PAID)
    => last.calls = <<>>

\* Equality of two values as Python compares them: Decimals by number.
RECURSIVE Same(_, _)
Same(a, b) ==
    IF a.t # b.t THEN FALSE
    ELSE IF a.t = "decimal" THEN DecEq(a.v, b.v)
    ELSE IF a.t = "dict"
    THEN /\ Len(a.items) = Len(b.items)
         /\ \A i \in 1..Len(a.items) :
               a.items[i][1] = b.items[i][1] /\ Same(a.items[i][2], b.items[i][2])
    ELSE IF a.t = "list"
    THEN /\ Len(a.items) = Len(b.items)
         /\ \A i \in 1..Len(a.items) : Same(a.items[i], b.items[i])
    ELSE a.v = b.v

\* The value under a key of a dict.
Item(d, key) == d.items[CHOOSE i \in 1..Len(d.items) : d.items[i][1] = key][2]

\* C13: _normalize(_centify(data)) is data again: every amount of at most
\* two fractional digits under a monetary key, at any depth, comes back as
\* the same number, and what is under other keys comes back unchanged.
C13_UnitsRoundTrip ==
    /\ payload.pc = "centified" =>
          /\ Item(payload.value, "totalAmount") =
                Digits(DecToCents(Item(payload.input, "totalAmount").v))
          /\ Item(payload.value, "currencyCode") = Item(payload.input, "currencyCode")
    /\ payload.pc = "normalized" => Same(payload.value, payload.input)

\* 12.50 at the top and 0.01 as the unit price of a product in a list went
\* out as 1250 and 1, and came back as 12.5 and 0.01.
C13_Witness ==
    /\ payload.pc = "normalized"
    /\ Item(payload.input, "totalAmount") = Decimal(Dec(1250, 2))
    /\ Item(payload.value, "totalAmount") = Decimal(Dec(125, 1))
    /\ Item(payload.input, "products").items[1].items[2][1] = "unitPrice"
    /\ Item(Item(payload.input, "products").items[1], "unitPrice") = Decimal(Dec(1, 2))
    /\ Item(Item(payload.value, "products").items[1], "unitPrice") = Decimal(Dec(1, 2))

\* C14: prepare_form_data gives two mappings of the same key/value pairs the
\* same OpenPayu-Signature, whatever order the pairs were inserted in.
C14_FormSignatureOrderIndependent ==
    form.pc = "both"
    => /\ HasField(form.first, "OpenPayu-Signature")
       /\ HasField(form.second, "OpenPayu-Signature")
       /\ FieldValue(form.first, "OpenPayu-Signature")
             = FieldValue(form.second, "OpenPayu-Signature")
       /\ SameItems(form.first, form.second)

\* description was inserted before currencyCode in one mapping and after it
\* in the other; both carry the SHA-256 signature of the sorted items.
C14_Witness ==
    /\ form.pc = "both"
    /\ form.first[1][1] = "description"
    /\ form.second[1][1] = "currencyCode"
    /\ form.second[2][1] = "description"
    /\ FieldValue(form.second, "OpenPayu-Signature")[1][2]
          = Hex("sha256", Urlencode(<< <<"currencyCode", "EUR">>, <<"description", "a b">>,
                                       <<"totalAmount", "1250">> >>), SecondKey)
    /\ FieldValue(form.first, "OpenPayu-Signature")[1][2]
          = FieldValue(form.second, "OpenPayu-Signature")[1][2]

\* The order notification of a status, as json.loads returns it.
OrderNotification(status) == [key |-> "order", status |-> status, amount |-> 0]

\* The last operation polled the status and get_order_info returned it.
PollAnswered == last.op = "fetch_payment_status" /\ last.ok

\* C15: for the status a poll was answered, the transitions the webhook
\* handler invokes on the same payment are the callback the poll names, when
\* the payment permits that callback, and none when the poll names none.
C15_PollMatchesWebhook ==
    (/\ PollAnswered
     /\ last.callback # "" => can_proceed(last.before, last.callback))
    => CallNames(Reconcile(last.before, OrderNotification(last.json.status)).calls)
          = IF last.callback = "" THEN <<>> ELSE <<last.callback>>

\* The statuses the reconciliation maps to a transition.
MappedOrderStatuses == {"NEW", "PENDING", "WAITING_FOR_CONFIRMATION", "COMPLETED", "CANCELED"}

MappedRefundStatuses == {"FINALIZED", "CANCELED"}

\* The notification of the last run carries no status that is mapped.
UnmappedNotification ==
    /\ JsonLoads(last.request.body).key = "order"
          => JsonLoads(last.request.body).status \notin MappedOrderStatuses
    /\ JsonLoads(last.request.body).key = "refund"
          => JsonLoads(last.request.body).status \notin MappedRefundStatuses

\* C18: a status that is not mapped is ignored: the webhook handler invokes
\* no transition, raises nothing and answers 200; fetch_payment_status names
\* no callback and raises nothing.
C18_UnmappedStatusIgnored ==
    /\ (Callback /\ last.request \in PollRequests /\ UnmappedNotification)
          => /\ last.calls = <<>>
             /\ last.raised = "none"
             /\ last.response = 200
             /\ last.after = last.before
    /\ (PollAnswered /\ last.json.status \notin MappedOrderStatuses)
          => /\ last.callback = ""
             /\ last.raised = "none"
             /\ last.calls = <<>>

\* A poll was answered REJECTED and a REJECTED notification came in: the
\* handler invoked nothing and answered 200, the payment is as it was.
C18_Witness ==
    /\ Callback
    /\ last.request.body = "order:REJECTED"
    /\ last.response = 200
    /\ last.calls = <<>>
    /\ db = last.before
    /\ db.status = ps_PRE_AUTH
    /\ client.last_response.endpoint = "get_order_info"
    /\ client.last_response.code = 200
    /\ client.last_response.json.status = "REJECTED"

\* The payment of the last run when the guard of mark_as_paid is due: after
\* confirm_payment if the payment permitted it, as it was found otherwise.
AtPaidGuard ==
    IF can_proceed(last.before, "confirm_payment")
    THEN ApplyTransition(last.before, "confirm_payment", NoArg)
    ELSE last.before

Invoked(name) == \E i \in 1..Len(last.calls) : last.calls[i].name = name

C17_OnlyPermittedTransitions ==
    (Callback /\ last.request \in GatewayRequests)
    => /\ last.raised = "none"
       /\ last.response = 200
       /\ last.saved

\* C19: once prepare_transaction is over, finished or interrupted, an order
\* the gateway created for the payment is on record: the persisted payment
\* is prepared with the id of an order the gateway holds, or failed.
C19_PrepareAtomic ==
    (flow.pc = "idle" /\ gateway # {})
    => \/ db.status = ps_PREPARED /\ db.external_id \in gateway
       \/ db.status = ps_FAILED

\* The body of a request that sets the order status to COMPLETED.
StatusCompleted == [kind |-> "orderStatus=COMPLETED", amount |-> -1]

\* C20: the request of capture is a PUT that carries the order status
\* COMPLETED, and charge reports success exactly for the result code SUCCESS.
C20_CaptureSendsCompleted ==
    (last.op = "charge" /\ last.wire # <<>> /\ OrderRequest.endpoint = "capture")
    => /\ OrderRequest.method = "PUT"
       /\ OrderRequest.body = StatusCompleted
       /\ last.success <=> (last.ok /\ last.json.statusCode = "SUCCESS")

\* The last operation was a REST prepare_transaction whose order the gateway
\* refused: new_order was sent and raised LockFailure.
LockFailed ==
    /\ last.op = "prepare_REST"
    /\ ~last.ok
    /\ last.wire # <<>>
    /\ OrderRequest.endpoint = "new_order"

\* C21: when order creation fails with LockFailure, confirm_prepared is not
\* invoked and the external id stays as it was; fail() is the only
\* transition applied, nothing else of the payment changes, and the payment
\* is saved by the one save() of prepare_transaction: until the shop creates
\* its next payment, the stored payment is the failed one.
C21_LockFailureFrame ==
    LockFailed
    => /\ ~Invoked("confirm_prepared")
       /\ last.after.external_id = last.before.external_id
       /\ CallNames(last.calls) = <<"fail">>
       /\ last.raised = "none"
       /\ last.after = [last.before EXCEPT !.status = ps_FAILED]
       /\ last.saved
       /\ db.status # ps_NEW => db = last.after
       /\ last.url = FailureUrl

\* The gateway answered 400 to the order of a new payment, which is now
\* stored as failed.
C21_Witness ==
    /\ LockFailed
    /\ OrderRequest.code = 400
    /\ last.before.status = ps_NEW
    /\ db.status = ps_FAILED
    /\ last.saved

\* The last operation was a guarded operation of the client whose
\* re-authorization the token endpoint refused.
AuthorizationFailed ==
    /\ last.op \in GuardedOps
    /\ Reauthorized
    /\ last.wire[1].code # 200

\* C22: a guarded operation whose re-authorization is answered anything but
\* 200 leaves the stored token and expiry as they were, raises
\* CredentialsError carrying the answer of the token endpoint, and sends
\* nothing but the token request.
C22_FailedAuthorizationFrame ==
    [][(last'.seq # last.seq /\ AuthorizationFailed')
       => /\ client'.token = client.token
          /\ client'.token_expiration = client.token_expiration
          /\ last'.raised = "CredentialsError"
          /\ ~last'.ok
          /\ last'.raw = last'.wire[1]
          /\ Len(last'.wire) = 1
          /\ \A i \in 1..Len(last'.wire) : last'.wire[i].endpoint \notin GuardedOps]_vars

\* A capture at a time the token had expired was answered 401 by the token
\* endpoint; the client still holds the token and expiry of its construction.
C22_Witness ==
    /\ AuthorizationFailed
    /\ last.op = "capture"
    /\ last.wire[1].code = 401
    /\ last.at > last.expiry + Skew
    /\ client.token = "Bearer B"
    /\ client.token_expiration = last.expiry
    /\ last.raised = "CredentialsError"

====
